---------------------------- MODULE Spec2Model ----------------------------
(***************************************************************************)
(* Model of the libdns provider for Regery (package libdnsregery).         *)
(*                                                                         *)
(* The repository holds two variants of the provider: provider.go, which   *)
(* translates records with toRegeryDNSRecord, and an earlier file          *)
(* (unnamed/part_000) which translates them inline.  A behaviour runs one  *)
(* of the two; the variable "variant" says which.                          *)
(*                                                                         *)
(* The remote zone (the Regery REST API) is not part of the repository; it *)
(* is modelled as a list of JSON objects with the semantics the            *)
(* specification gives it: POST adds the objects of the body, DELETE       *)
(* removes the objects that match one of the body on name, type and value. *)
(***************************************************************************)
EXTENDS Integers, Sequences, FiniteSets, TLC

(***************************************************************************)
(* Bounds of the model.                                                    *)
(***************************************************************************)
\* longest zone content at the start of a behaviour
MaxZone == 2
\* longest record list a caller passes to an operation
MaxDesired == 2
\* number of operations invoked in one behaviour
MaxCalls == 2
\* with two callers: longest zone content at the start
MaxRaceZone == 1
\* with two callers: longest record list each of them passes to SetRecords
MaxRaceRecords == 1

(***************************************************************************)
(* Program constants.                                                      *)
(***************************************************************************)
\* time.Second, with durations counted in milliseconds instead of
\* nanoseconds (the scale plays no part in the truncation of Seconds())
Second == 1000
\* the TTL sent for a record whose TTL is zero seconds
DefaultTTL == 3600

Variants == {"provider.go", "part_000"}

Callers == {"c1", "c2"}

(***************************************************************************)
(* libdns.Record values the callers pass in: ID, Type, Name, Value, TTL    *)
(* (a time.Duration).                                                      *)
(***************************************************************************)
LibRecord(id, name, type, value, ttl) ==
    [ID |-> id, Name |-> name, Type |-> type, Value |-> value, TTL |-> ttl]

DesiredPool ==
    { LibRecord("", "www", "A", "10.0.0.2", 600 * Second),
      LibRecord("", "www", "A", "10.0.0.1", 0),
      LibRecord("", "www", "TXT", "hello", Second \div 2),
      LibRecord("", "mail", "A", "10.0.0.1", 300 * Second) }

(***************************************************************************)
(* JSON objects the zone holds at the start: as the API reports them       *)
(* (address only, ttl possibly absent) or as an earlier POST of either     *)
(* variant left them.                                                      *)
(***************************************************************************)
ZonePool ==
    { [name |-> "www", type |-> "A", address |-> "10.0.0.1", ttl |-> 300],
      [name |-> "www", type |-> "A", address |-> "10.0.0.2",
       value |-> "10.0.0.2", ttl |-> 0],
      [name |-> "www", type |-> "TXT", address |-> "hello", value |-> "hello"],
      [name |-> "mail", type |-> "A", address |-> "10.0.0.1", ttl |-> 300] }

\* the records and the zone content used with two callers
RacePool ==
    { LibRecord("", "www", "A", "10.0.0.2", 600 * Second),
      LibRecord("", "www", "TXT", "hello", Second \div 2),
      LibRecord("", "mail", "A", "10.0.0.1", 300 * Second) }

RaceZonePool ==
    { [name |-> "www", type |-> "A", address |-> "10.0.0.1", ttl |-> 300],
      [name |-> "mail", type |-> "A", address |-> "10.0.0.1", ttl |-> 300] }

BoundedSeq(S, n) == UNION {[1..k -> S] : k \in 0..n}

Range(s) == {s[i] : i \in 1..Len(s)}

VARIABLES
    variant,          \* which of the two source files runs
    zone,             \* the remote zone: the JSON objects the API holds
    host,             \* the process that uses the library
    input,            \* per caller: the records it passes to its operations
    ncalls,           \* operations invoked so far
    pc,               \* per caller: position inside SetRecords, or "idle"
    op,               \* per caller: the operation invoked last
    calls,            \* per caller: the requests that operation has issued
    existingRecords,  \* per caller: SetRecords' local existingRecords
    toDelete,         \* per caller: SetRecords' local toDelete
    appendedRecords,  \* per caller: SetRecords' local appendedRecords
    ret,              \* per caller: what the operation returned, if it has
    cancelled,        \* per caller: the context it passes in is done
    zone0,            \* history: the zone at the start of the behaviour
    completed         \* history: the operations that have returned, in order

vars == <<variant, zone, host, input, ncalls, pc, op, calls,
          existingRecords, toDelete, appendedRecords, ret, cancelled,
          zone0, completed>>


(***************************************************************************)
(* time.Duration arithmetic.                                               *)
(***************************************************************************)
\* int(d.Seconds()): the whole seconds of a duration
Seconds(d) == d \div Second

\* time.Duration(n): the count of seconds taken as a count of the unit of
\* time.Duration
DurationRaw(n) == n

\* time.Duration(n) * time.Second
DurationOfSeconds(n) == n * Second

(***************************************************************************)
(* provider.go: the wire struct RegeryDNSRecord and its JSON form.         *)
(***************************************************************************)
toRegeryDNSRecord(r) ==
    LET ttlSeconds == Seconds(r.TTL) IN
    [Address |-> r.Value,
     Value   |-> r.Value,
     Type    |-> r.Type,
     TTL     |-> IF ttlSeconds = 0 THEN DefaultTTL ELSE ttlSeconds,
     Name    |-> r.Name]

\* json.Marshal of a RegeryDNSRecord: ttl carries omitempty
MarshalRegery(w) ==
    IF w.TTL = 0
    THEN [address |-> w.Address, value |-> w.Value, type |-> w.Type,
          name |-> w.Name]
    ELSE [address |-> w.Address, value |-> w.Value, type |-> w.Type,
          ttl |-> w.TTL, name |-> w.Name]

\* json.Unmarshal into a RegeryDNSRecord: a missing key leaves the zero value
UnmarshalRegery(j) ==
    [Address |-> IF "address" \in DOMAIN j THEN j.address ELSE "",
     Value   |-> IF "value" \in DOMAIN j THEN j.value ELSE "",
     Type    |-> IF "type" \in DOMAIN j THEN j.type ELSE "",
     TTL     |-> IF "ttl" \in DOMAIN j THEN j.ttl ELSE 0,
     Name    |-> IF "name" \in DOMAIN j THEN j.name ELSE ""]

\* the loop body of GetRecords in provider.go
FromRegeryDNSRecord(record) ==
    LET value == IF record.Value = "" THEN record.Address ELSE record.Value IN
    LibRecord(record.Name, record.Name, record.Type, value,
              DurationOfSeconds(record.TTL))

(***************************************************************************)
(* part_000: the wire struct DNSRecord and its JSON form.                  *)
(***************************************************************************)
\* the struct literal in the loops of AppendRecords and DeleteRecords
toDNSRecord(r) ==
    [Address |-> r.Value,
     Type    |-> r.Type,
     TTL     |-> Seconds(r.TTL),
     Name    |-> r.Name]

\* json.Marshal of a DNSRecord: every field is written
MarshalDNS(w) ==
    [address |-> w.Address, type |-> w.Type, ttl |-> w.TTL, name |-> w.Name]

\* json.Unmarshal into a DNSRecord: the struct has no value field
UnmarshalDNS(j) ==
    [Address |-> IF "address" \in DOMAIN j THEN j.address ELSE "",
     Type    |-> IF "type" \in DOMAIN j THEN j.type ELSE "",
     TTL     |-> IF "ttl" \in DOMAIN j THEN j.ttl ELSE 0,
     Name    |-> IF "name" \in DOMAIN j THEN j.name ELSE ""]

\* the loop body of GetRecords in part_000
FromDNSRecord(record) ==
    LibRecord(record.Name, record.Name, record.Type, record.Address,
              DurationOfSeconds(record.TTL))

(***************************************************************************)
(* The two translations, by variant.                                       *)
(***************************************************************************)
\* the "records" array of the body AppendRecords and DeleteRecords send
RequestBody(v, records) ==
    IF v = "provider.go"
    THEN [i \in 1..Len(records) |->
             MarshalRegery(toRegeryDNSRecord(records[i]))]
    ELSE [i \in 1..Len(records) |-> MarshalDNS(toDNSRecord(records[i]))]

\* the records GetRecords builds from the "records" array of a response
ResponseRecords(v, body) ==
    IF v = "provider.go"
    THEN [i \in 1..Len(body) |->
             FromRegeryDNSRecord(UnmarshalRegery(body[i]))]
    ELSE [i \in 1..Len(body) |-> FromDNSRecord(UnmarshalDNS(body[i]))]

\* EchoRecords giving back the records as they were sent: with the TTL of
\* the request in place of the caller's
EchoRecordsAsSent(records) ==
    [i \in 1..Len(records) |->
        [records[i] EXCEPT !.TTL =
            DurationOfSeconds(toRegeryDNSRecord(records[i]).TTL)]]

\* what AppendRecords and DeleteRecords return on success: their argument
EchoRecords(records) == records

(***************************************************************************)
(* SetRecords: the records of the List snapshot that share a name with a   *)
(* desired record, by the nested loops of the source: one copy of r for    *)
(* every desired record of r's name.                                       *)
(***************************************************************************)
\* MatchCopies with the match made on name and type
RECURSIVE MatchCopiesNameType(_, _)
MatchCopiesNameType(r, records) ==
    IF records = <<>> THEN <<>>
    ELSE (IF Head(records).Name = r.Name /\ Head(records).Type = r.Type
          THEN <<r>> ELSE <<>>)
         \o MatchCopiesNameType(r, Tail(records))

\* MatchCopies without the comparison of names: a copy of r for every desired
\* record
RECURSIVE MatchCopiesAny(_, _)
MatchCopiesAny(r, records) ==
    IF records = <<>> THEN <<>>
    ELSE <<r>> \o MatchCopiesAny(r, Tail(records))

RECURSIVE MatchCopies(_, _)
MatchCopies(r, records) ==
    IF records = <<>> THEN <<>>
    ELSE (IF Head(records).Name = r.Name THEN <<r>> ELSE <<>>)
         \o MatchCopies(r, Tail(records))

RECURSIVE ToDelete(_, _)
ToDelete(existing, records) ==
    IF existing = <<>> THEN <<>>
    ELSE MatchCopies(Head(existing), records)
         \o ToDelete(Tail(existing), records)

(***************************************************************************)
(* The remote zone.                                                        *)
(***************************************************************************)
\* the data of a stored or submitted object: its value, else its address
StoreValue(j) ==
    IF "value" \in DOMAIN j /\ j.value # "" THEN j.value
    ELSE IF "address" \in DOMAIN j THEN j.address ELSE ""

\* the API matches a submitted object to a stored one on name, type, value
StoreMatch(j, k) ==
    /\ j.name = k.name
    /\ j.type = k.type
    /\ StoreValue(j) = StoreValue(k)

\* GET: the "records" array of the answer
StoreList(z) == z

\* POST: the objects of the body are added, duplicates included
StoreAppend(z, body) == z \o body

\* DELETE: every stored object that matches an object of the body goes
StoreDelete(z, body) ==
    SelectSeq(z, LAMBDA j : ~ \E i \in 1..Len(body) : StoreMatch(j, body[i]))

(***************************************************************************)
(* Outcomes of one HTTP exchange, as the code tells them apart.            *)
(*   "transport": http.DefaultClient.Do returns an error                   *)
(*   "status":    the status code is not 200                               *)
(*   "read":      io.ReadAll of the body returns an error                  *)
(*   "parse":     json.Unmarshal of the body returns an error              *)
(* A request that fails leaves the zone as it was.                         *)
(***************************************************************************)
GetOutcomes == {"ok", "transport", "status", "read", "parse"}

SendOutcomes == {"ok", "transport", "status"}

\* one request as issued, with the way it ended
Request(method, body, o) ==
    [method |-> method, body |-> body, outcome |-> o]

NoRet == [returned |-> FALSE, records |-> <<>>, err |-> "nil"]

Returned(records) == [returned |-> TRUE, records |-> records, err |-> "nil"]


(***************************************************************************)
(* Initial state: any zone content within the bound, either variant, and   *)
(* the record list caller c1 works with.  Caller c2 stays idle under Spec. *)
(***************************************************************************)
Init ==
    /\ variant \in Variants
    /\ zone \in BoundedSeq(ZonePool, MaxZone)
    /\ host = "running"
    /\ \E records \in BoundedSeq(DesiredPool, MaxDesired) :
           input = [c \in Callers |-> IF c = "c1" THEN records ELSE <<>>]
    /\ ncalls = 0
    /\ pc = [c \in Callers |-> "idle"]
    /\ op = [c \in Callers |-> "none"]
    /\ calls = [c \in Callers |-> <<>>]
    /\ existingRecords = [c \in Callers |-> <<>>]
    /\ toDelete = [c \in Callers |-> <<>>]
    /\ appendedRecords = [c \in Callers |-> <<>>]
    /\ ret = [c \in Callers |-> NoRet]
    /\ cancelled = [c \in Callers |-> FALSE]
    /\ zone0 = zone
    /\ completed = <<>>

\* caller c may invoke an operation
Idle(c) ==
    /\ host = "running"
    /\ pc[c] = "idle"
    /\ ncalls < MaxCalls

\* entry of an operation: it becomes the caller's current one
Invoke(c, name) ==
    /\ op' = [op EXCEPT ![c] = name]
    /\ ncalls' = ncalls + 1

\* log.Fatalf after request req: the message is written and os.Exit(1) ends
\* the process; the operation returns nothing
Fatalf(c, req) ==
    /\ calls' = [calls EXCEPT ![c] = req]
    /\ host' = "exited"
    /\ ret' = [ret EXCEPT ![c] = NoRet]
    /\ completed' = completed

\* return of operation name to caller c with the given records and a nil error
Return(c, name, records) ==
    /\ ret' = [ret EXCEPT ![c] = Returned(records)]
    /\ completed' = Append(completed, name)

\* the request was answered with 200 and the operation goes on
Answered(c, req) ==
    /\ calls' = [calls EXCEPT ![c] = req]
    /\ host' = host

(***************************************************************************)
(* GetRecords, called on its own.                                          *)
(***************************************************************************)
GetRecords(c) ==
    /\ Idle(c)
    /\ Invoke(c, "GetRecords")
    /\ \E o \in GetOutcomes :
         LET req == <<Request("GET", <<>>, o)>> IN
         IF o = "ok"
         THEN /\ Answered(c, req)
              /\ Return(c, "GetRecords",
                        ResponseRecords(variant, StoreList(zone)))
         ELSE Fatalf(c, req)
    /\ UNCHANGED <<variant, cancelled, zone, input, pc, zone0,
                   existingRecords, toDelete, appendedRecords>>

(***************************************************************************)
(* AppendRecords, called on its own with the caller's records.             *)
(***************************************************************************)
AppendRecords(c) ==
    /\ Idle(c)
    /\ Invoke(c, "AppendRecords")
    /\ \E o \in SendOutcomes :
         LET body == RequestBody(variant, input[c])
             req == <<Request("POST", body, o)>> IN
         IF o = "ok"
         THEN /\ Answered(c, req)
              /\ zone' = StoreAppend(zone, body)
              /\ Return(c, "AppendRecords", EchoRecords(input[c]))
         ELSE /\ Fatalf(c, req)
              /\ zone' = zone
    /\ UNCHANGED <<variant, cancelled, input, pc, zone0,
                   existingRecords, toDelete, appendedRecords>>

(***************************************************************************)
(* DeleteRecords, called on its own with the caller's records.             *)
(***************************************************************************)
DeleteRecords(c) ==
    /\ Idle(c)
    /\ Invoke(c, "DeleteRecords")
    /\ \E o \in SendOutcomes :
         LET body == RequestBody(variant, input[c])
             req == <<Request("DELETE", body, o)>> IN
         IF o = "ok"
         THEN /\ Answered(c, req)
              /\ zone' = StoreDelete(zone, body)
              /\ Return(c, "DeleteRecords", EchoRecords(input[c]))
         ELSE /\ Fatalf(c, req)
              /\ zone' = zone
    /\ UNCHANGED <<variant, cancelled, input, pc, zone0,
                   existingRecords, toDelete, appendedRecords>>

(***************************************************************************)
(* SetRecords, in the three steps at which it waits for the API.           *)
(***************************************************************************)
\* entry, the call of GetRecords and the loops that build toDelete
SetRecordsList(c) ==
    /\ Idle(c)
    /\ Invoke(c, "SetRecords")
    /\ \E o \in GetOutcomes :
         LET req == <<Request("GET", <<>>, o)>> IN
         IF o = "ok"
         THEN LET existing == ResponseRecords(variant, StoreList(zone)) IN
              /\ Answered(c, req)
              /\ existingRecords' = [existingRecords EXCEPT ![c] = existing]
              /\ toDelete' = [toDelete EXCEPT ![c] =
                                 ToDelete(existing, input[c])]
              /\ pc' = [pc EXCEPT ![c] = "append"]
              /\ ret' = [ret EXCEPT ![c] = NoRet]
              /\ completed' = completed
         ELSE /\ Fatalf(c, req)
              /\ UNCHANGED <<existingRecords, toDelete, pc>>
    /\ appendedRecords' = [appendedRecords EXCEPT ![c] = <<>>]
    /\ UNCHANGED <<variant, cancelled, zone, input, zone0>>

\* SetRecordsAppend with the failure of AppendRecords not checked: SetRecords
\* goes on to DeleteRecords whatever the answer was
SetRecordsAppendUnchecked(c) ==
    /\ host = "running"
    /\ pc[c] = "append"
    /\ \E o \in SendOutcomes :
         LET body == RequestBody(variant, input[c])
             req == Append(calls[c], Request("POST", body, o)) IN
         /\ Answered(c, req)
         /\ zone' = IF o = "ok" THEN StoreAppend(zone, body) ELSE zone
         /\ appendedRecords' = [appendedRecords EXCEPT ![c] =
                                   IF o = "ok" THEN EchoRecords(input[c])
                                   ELSE <<>>]
         /\ pc' = [pc EXCEPT ![c] = "delete"]
         /\ UNCHANGED <<ret, completed>>
    /\ UNCHANGED <<variant, cancelled, input, ncalls, op, zone0,
                   existingRecords, toDelete>>

\* SetRecordsAppend with a failed request sent again instead of ending in
\* log.Fatalf
SetRecordsAppendRetry(c) ==
    /\ host = "running"
    /\ pc[c] = "append"
    /\ \E o \in SendOutcomes :
         LET body == RequestBody(variant, input[c])
             req == Append(calls[c], Request("POST", body, o)) IN
         /\ Len(calls[c]) < 3
         /\ Answered(c, req)
         /\ zone' = IF o = "ok" THEN StoreAppend(zone, body) ELSE zone
         /\ appendedRecords' = [appendedRecords EXCEPT ![c] =
                                   IF o = "ok" THEN EchoRecords(input[c])
                                   ELSE <<>>]
         /\ pc' = [pc EXCEPT ![c] = IF o = "ok" THEN "delete" ELSE "append"]
         /\ UNCHANGED <<ret, completed>>
    /\ UNCHANGED <<variant, cancelled, input, ncalls, op, zone0,
                   existingRecords, toDelete>>

\* the call of AppendRecords with the records SetRecords was given
SetRecordsAppend(c) ==
    /\ host = "running"
    /\ pc[c] = "append"
    /\ \E o \in SendOutcomes :
         LET body == RequestBody(variant, input[c])
             req == Append(calls[c], Request("POST", body, o)) IN
         IF o = "ok"
         THEN /\ Answered(c, req)
              /\ zone' = StoreAppend(zone, body)
              /\ appendedRecords' = [appendedRecords EXCEPT ![c] =
                                        EchoRecords(input[c])]
              /\ pc' = [pc EXCEPT ![c] = "delete"]
              /\ UNCHANGED <<ret, completed>>
         ELSE /\ Fatalf(c, req)
              /\ UNCHANGED <<zone, appendedRecords, pc>>
    /\ UNCHANGED <<variant, cancelled, input, ncalls, op, zone0,
                   existingRecords, toDelete>>

\* SetRecordsDelete with the records to delete matched against the zone as
\* it is when DeleteRecords is called, instead of the snapshot
SetRecordsDeleteRelisted(c) ==
    /\ host = "running"
    /\ pc[c] = "delete"
    /\ \E o \in SendOutcomes :
         LET now == ResponseRecords(variant, StoreList(zone))
             body == RequestBody(variant, ToDelete(now, input[c]))
             req == Append(calls[c], Request("DELETE", body, o)) IN
         IF o = "ok"
         THEN /\ Answered(c, req)
              /\ zone' = StoreDelete(zone, body)
              /\ Return(c, "SetRecords", appendedRecords[c])
              /\ pc' = [pc EXCEPT ![c] = "idle"]
         ELSE /\ Fatalf(c, req)
              /\ UNCHANGED <<zone, pc>>
    /\ UNCHANGED <<variant, cancelled, input, ncalls, op, zone0,
                   existingRecords, toDelete, appendedRecords>>

\* the call of DeleteRecords with toDelete, and the return
SetRecordsDelete(c) ==
    /\ host = "running"
    /\ pc[c] = "delete"
    /\ \E o \in SendOutcomes :
         LET body == RequestBody(variant, toDelete[c])
             req == Append(calls[c], Request("DELETE", body, o)) IN
         IF o = "ok"
         THEN /\ Answered(c, req)
              /\ zone' = StoreDelete(zone, body)
              /\ Return(c, "SetRecords", appendedRecords[c])
              /\ pc' = [pc EXCEPT ![c] = "idle"]
         ELSE /\ Fatalf(c, req)
              /\ UNCHANGED <<zone, pc>>
    /\ UNCHANGED <<variant, cancelled, input, ncalls, op, zone0,
                   existingRecords, toDelete, appendedRecords>>

(***************************************************************************)
(* The context.  Every operation takes a context.Context and none of them  *)
(* reads it: the requests are built with http.NewRequest and sent with     *)
(* http.DefaultClient.Do.  The caller may cancel its context at any time.  *)
(***************************************************************************)
Cancel(c) ==
    /\ host = "running"
    /\ ~ cancelled[c]
    /\ cancelled' = [cancelled EXCEPT ![c] = TRUE]
    /\ UNCHANGED <<variant, zone, host, input, ncalls, pc, op, calls,
                   existingRecords, toDelete, appendedRecords, ret,
                   zone0, completed>>

(***************************************************************************)
(* After log.Fatalf has ended the process, the host may be started again   *)
(* and go on calling the library on the same zone.  The history notes in   *)
(* which request of which operation the process ended.                     *)
(***************************************************************************)
ExitMark(c) ==
    IF op[c] = "SetRecords" /\ Len(calls[c]) = 3
    THEN "SetRecords exit in Delete"
    ELSE "exit"

Restart ==
    /\ host = "exited"
    /\ ncalls < MaxCalls
    /\ host' = "running"
    /\ pc' = [c \in Callers |-> "idle"]
    /\ completed' = Append(completed, ExitMark("c1"))
    /\ UNCHANGED <<variant, zone, input, ncalls, op, calls,
                   existingRecords, toDelete, appendedRecords, ret,
                   cancelled, zone0>>

(***************************************************************************)
(* One caller at a time: caller c1 invokes operations one after the other. *)
(***************************************************************************)
Next ==
    \/ GetRecords("c1")
    \/ AppendRecords("c1")
    \/ DeleteRecords("c1")
    \/ SetRecordsList("c1")
    \/ SetRecordsAppend("c1")
    \/ SetRecordsDelete("c1")

Spec == Init /\ [][Next]_vars

(***************************************************************************)
(* One caller that calls SetRecords and may cancel its context.            *)
(***************************************************************************)
NextCancel ==
    \/ Cancel("c1")
    \/ SetRecordsList("c1")
    \/ SetRecordsAppend("c1")
    \/ SetRecordsDelete("c1")

SpecCancel == Init /\ [][NextCancel]_vars

(***************************************************************************)
(* One caller that calls SetRecords, with the host started again after a   *)
(* fatal error.                                                            *)
(***************************************************************************)
NextRestart ==
    \/ Restart
    \/ SetRecordsList("c1")
    \/ SetRecordsAppend("c1")
    \/ SetRecordsDelete("c1")

SpecRestart == Init /\ [][NextRestart]_vars

(***************************************************************************)
(* One caller that calls nothing but SetRecords.                           *)
(***************************************************************************)
NextSet ==
    \/ SetRecordsList("c1")
    \/ SetRecordsAppend("c1")
    \/ SetRecordsDelete("c1")

SpecSet == Init /\ [][NextSet]_vars

TypeOK ==
    /\ variant \in Variants
    /\ host \in {"running", "exited"}
    /\ ncalls \in 0..MaxCalls
    /\ \A c \in Callers : pc[c] \in {"idle", "append", "delete"}

(***************************************************************************)
(* Two callers, each calling SetRecords once on the same zone, their steps *)
(* interleaved in any order: the provider holds no lock and the requests   *)
(* carry no version of the zone.                                           *)
(***************************************************************************)
InitRace ==
    /\ variant \in Variants
    /\ zone \in BoundedSeq(RaceZonePool, MaxRaceZone)
    /\ host = "running"
    /\ input \in [Callers -> BoundedSeq(RacePool, MaxRaceRecords)]
    /\ ncalls = 0
    /\ pc = [c \in Callers |-> "idle"]
    /\ op = [c \in Callers |-> "none"]
    /\ calls = [c \in Callers |-> <<>>]
    /\ existingRecords = [c \in Callers |-> <<>>]
    /\ toDelete = [c \in Callers |-> <<>>]
    /\ appendedRecords = [c \in Callers |-> <<>>]
    /\ ret = [c \in Callers |-> NoRet]
    /\ cancelled = [c \in Callers |-> FALSE]
    /\ zone0 = zone
    /\ completed = <<>>

\* caller c calls SetRecords, once
SetRecordsOnce(c) ==
    /\ op[c] = "none"
    /\ SetRecordsList(c)

NextRace ==
    \E c \in Callers :
        \/ SetRecordsOnce(c)
        \/ SetRecordsAppend(c)
        \/ SetRecordsDelete(c)

SpecRace == InitRace /\ [][NextRace]_vars

(***************************************************************************)
(* Vocabulary of the properties.                                           *)
(***************************************************************************)
\* caller c's current operation is SetRecords
InSet(c) == op[c] = "SetRecords"

\* that operation has issued its i-th request and it succeeded / failed
CallOk(c, i) == i <= Len(calls[c]) /\ calls[c][i].outcome = "ok"

CallFailed(c, i) == i <= Len(calls[c]) /\ calls[c][i].outcome # "ok"

\* JSON object j carries the name, type and value of libdns record r
Carries(j, r) ==
    /\ j.name = r.Name
    /\ j.type = r.Type
    /\ StoreValue(j) = r.Value

\* what a List of the zone as it is now would return
ListNow == ResponseRecords(variant, StoreList(zone))

\* r and q are the same DNS entry: name, type and value
SameEntry(r, q) == r.Name = q.Name /\ r.Type = q.Type /\ r.Value = q.Value

\* the records caller c's current operation translated for its i-th request
Translated(c, i) ==
    IF InSet(c) /\ calls[c][i].method = "DELETE" THEN toDelete[c] ELSE input[c]

SetOrder == <<"GET", "POST", "DELETE">>

(***************************************************************************)
(* C1.  Within one SetRecords the requests are issued in the order List,   *)
(* Append, Delete: Append carries the entire desired set, and Delete is    *)
(* issued only after List and Append have succeeded.                       *)
(***************************************************************************)
C1_SetCallOrder ==
    \A c \in Callers :
        InSet(c) =>
            /\ Len(calls[c]) \in 1..3
            /\ \A i \in 1..Len(calls[c]) : calls[c][i].method = SetOrder[i]
            /\ Len(calls[c]) >= 2 =>
                   /\ CallOk(c, 1)
                   /\ Len(calls[c][2].body) = Len(input[c])
                   /\ \A k \in 1..Len(input[c]) :
                          Carries(calls[c][2].body[k], input[c][k])
            /\ Len(calls[c]) = 3 => CallOk(c, 2)

\* a SetRecords of two records has issued List, Append and Delete, with
\* something to delete
C1_Witness ==
    \E c \in Callers :
        /\ InSet(c)
        /\ Len(calls[c]) = 3
        /\ Len(input[c]) = 2
        /\ toDelete[c] # <<>>

(***************************************************************************)
(* C2.  When List and Append succeeded and the Delete request fails,       *)
(* SetRecords returns the records Append returned, with no error, and the  *)
(* appended records stay in the zone.                                      *)
(***************************************************************************)
C2_DeleteFailureSwallowed ==
    \A c \in Callers :
        (InSet(c) /\ CallFailed(c, 3)) =>
            /\ host = "running"
            /\ ret[c].returned
            /\ ret[c].err = "nil"
            /\ ret[c].records = appendedRecords[c]
            /\ \A k \in 1..Len(input[c]) :
                   \E j \in Range(zone) : Carries(j, input[c][k])

(***************************************************************************)
(* C3.  A failure of List or of Append is returned by SetRecords to its    *)
(* caller as an error, and no further request is issued.                   *)
(***************************************************************************)
C3_ListAppendFailureReturned ==
    \A c \in Callers :
        \A i \in 1..2 :
            (InSet(c) /\ CallFailed(c, i)) =>
                /\ Len(calls[c]) = i
                /\ ret[c].returned
                /\ ret[c].err # "nil"

(***************************************************************************)
(* C4.  No operation ends the host process: after a failed request the     *)
(* process is running and the operation has returned an error.             *)
(***************************************************************************)
C4_HostKeepsRunning ==
    /\ host = "running"
    /\ \A c \in Callers :
           (\E i \in 1..Len(calls[c]) : CallFailed(c, i)) =>
               ret[c].returned /\ ret[c].err # "nil"

(***************************************************************************)
(* C5.  A record of the List snapshot is in toDelete if and only if some   *)
(* desired record has its Name; Type, Value and TTL play no part.          *)
(***************************************************************************)
C5_ToDeleteByName ==
    \A c \in Callers :
        (InSet(c) /\ CallOk(c, 1)) =>
            /\ Range(toDelete[c]) \subseteq Range(existingRecords[c])
            /\ \A e \in Range(existingRecords[c]) :
                   e \in Range(toDelete[c])
                       <=> \E d \in Range(input[c]) : d.Name = e.Name

\* two existing records of one name and different types are both slated for
\* deletion by a single desired record of that name and of another value
C5_Witness ==
    \E c \in Callers :
        /\ InSet(c)
        /\ CallOk(c, 1)
        /\ Len(input[c]) = 1
        /\ Len(existingRecords[c]) = 2
        /\ existingRecords[c][1].Type # existingRecords[c][2].Type
        /\ \A e \in Range(existingRecords[c]) :
               /\ e \in Range(toDelete[c])
               /\ e.Value # input[c][1].Value

(***************************************************************************)
(* C6.  Once the Append of a SetRecords has succeeded, every name of the   *)
(* desired set has at least one record in the zone, in every later state   *)
(* of that SetRecords, the state after Delete included.                    *)
(***************************************************************************)
C6_NameAlwaysResolves ==
    \A c \in Callers :
        (InSet(c) /\ CallOk(c, 2)) =>
            \A d \in Range(input[c]) :
                \E j \in Range(zone) : j.name = d.Name

(***************************************************************************)
(* C7.  When the zone held a record e and SetRecords was given a record d  *)
(* of the same Name and another Value, the result contains d and, Delete   *)
(* having succeeded, a List that follows contains d and not e.             *)
(***************************************************************************)
C7_NameBasedReplacement ==
    \A c \in Callers :
        (InSet(c) /\ ret[c].returned) =>
            \A d \in Range(input[c]) :
                \A e \in Range(existingRecords[c]) :
                    (d.Name = e.Name /\ d.Value # e.Value) =>
                        /\ d \in Range(ret[c].records)
                        /\ \E r \in Range(ListNow) : SameEntry(r, d)
                        /\ ~ \E r \in Range(ListNow) : SameEntry(r, e)

(***************************************************************************)
(* C8.  SetRecords called twice in a row with the same records R, on a     *)
(* zone that had no record of a name of R, leaves every record of R in     *)
(* the zone, twice.                                                        *)
(***************************************************************************)
C8_SetTwiceDuplicates ==
    (/\ completed = <<"SetRecords", "SetRecords">>
     /\ \A d \in Range(input["c1"]) :
            \A j \in Range(zone0) : j.name # d.Name)
        => \A d \in Range(input["c1"]) :
               Cardinality({i \in 1..Len(zone) : Carries(zone[i], d)}) >= 2

(***************************************************************************)
(* C9.  Every record with a zero TTL that AppendRecords or DeleteRecords   *)
(* translates is sent with the default TTL of 3600 seconds, and no body    *)
(* of theirs carries a ttl of zero.                                        *)
(***************************************************************************)
C9_TTLNormalized ==
    \A c \in Callers :
        \A i \in 1..Len(calls[c]) :
            calls[c][i].method \in {"POST", "DELETE"} =>
                \A k \in 1..Len(calls[c][i].body) :
                    LET j == calls[c][i].body[k] IN
                    /\ ~ ("ttl" \in DOMAIN j /\ j.ttl = 0)
                    /\ Translated(c, i)[k].TTL = 0 =>
                           ("ttl" \in DOMAIN j /\ j.ttl = DefaultTTL)

SetResult(z, records) ==
    LET snapshot == ResponseRecords(variant, StoreList(z)) IN
    StoreDelete(StoreAppend(z, RequestBody(variant, records)),
                RequestBody(variant, ToDelete(snapshot, records)))

\* what the two calls leave when run one after the other, in either order
Sequential12 == SetResult(SetResult(zone0, input["c1"]), input["c2"])

Sequential21 == SetResult(SetResult(zone0, input["c2"]), input["c1"])

\* the names both callers set and the zone had no record of at the start
SharedNewNames ==
    {n \in {r.Name : r \in Range(input["c1"])} :
        /\ \E r \in Range(input["c2"]) : r.Name = n
        /\ \A j \in Range(zone0) : j.name # n}

\* both calls of SetRecords have returned, with no error
BothReturned ==
    \A c \in Callers : InSet(c) /\ ret[c].returned /\ ret[c].err = "nil"

\* both calls took their List snapshot of the zone as it was at the start
BothSawStart ==
    \A c \in Callers :
        existingRecords[c] = ResponseRecords(variant, StoreList(zone0))

(***************************************************************************)
(* C11.  Two SetRecords on one zone are not coordinated: when both took    *)
(* their List snapshot before either appended and both returned success,   *)
(* every name both of them set (and the zone did not hold) ends with the   *)
(* records of both calls, duplicates under one name, and the zone is not   *)
(* what the two calls leave when run one after the other in either order.  *)
(***************************************************************************)
C11_RaceLeavesDuplicates ==
    (BothReturned /\ BothSawStart) =>
        \A n \in SharedNewNames :
            /\ Cardinality({i \in 1..Len(zone) : zone[i].name = n}) >= 2
            /\ zone # Sequential12
            /\ zone # Sequential21

\* both calls have returned after such an interleaving, on a name they share
C11_Witness ==
    /\ BothReturned
    /\ BothSawStart
    /\ SharedNewNames # {}
    /\ input["c1"] # input["c2"]

(***************************************************************************)
(* C12.  Once the caller's context is cancelled, SetRecords issues no      *)
(* further request: a cancellation after Append succeeded leaves the old   *)
(* and the new records in the zone, with no Delete following.              *)
(***************************************************************************)
C12_CancelStopsRequests ==
    [][\A c \in Callers : cancelled[c] => calls'[c] = calls[c]]_vars

(***************************************************************************)
(* C13.  AppendRecords and DeleteRecords return their argument with a nil  *)
(* error exactly when the API answers with status 200; on any other status *)
(* they return an error and no records.                                    *)
(***************************************************************************)
C13_StatusDecidesResult ==
    \A c \in Callers :
        (op[c] \in {"AppendRecords", "DeleteRecords"} /\ Len(calls[c]) = 1) =>
            /\ calls[c][1].outcome = "ok" =>
                   /\ ret[c].returned
                   /\ ret[c].err = "nil"
                   /\ ret[c].records = input[c]
            /\ calls[c][1].outcome = "status" =>
                   /\ ret[c].returned
                   /\ ret[c].err # "nil"
                   /\ ret[c].records = <<>>

\* how many times x occurs in sequence s
Count(s, x) == Cardinality({i \in 1..Len(s) : s[i] = x})

(***************************************************************************)
(* C14.  toDelete is a subset of the List snapshot taken before Append:    *)
(* each snapshot record is in it at most once, also when several desired   *)
(* records have its Name, so toDelete is never longer than the snapshot.   *)
(***************************************************************************)
C14_ToDeleteSubset ==
    \A c \in Callers :
        (InSet(c) /\ CallOk(c, 1)) =>
            /\ Range(toDelete[c]) \subseteq Range(existingRecords[c])
            /\ \A e \in Range(existingRecords[c]) :
                   Count(toDelete[c], e) <= Count(existingRecords[c], e)
            /\ Len(toDelete[c]) <= Len(existingRecords[c])

(***************************************************************************)
(* C15.  After a SetRecords whose Delete failed, a later SetRecords of the *)
(* same records whose three requests succeed converges the zone: every     *)
(* desired record is present and every superseded record of their names    *)
(* is gone.                                                                *)
(***************************************************************************)
C15_RetryConverges ==
    completed = <<"SetRecords exit in Delete", "SetRecords">> =>
        /\ \A d \in Range(input["c1"]) :
               \E j \in Range(zone) : Carries(j, d)
        /\ \A j \in Range(zone0) :
               (/\ \E d \in Range(input["c1"]) : d.Name = j.name
                /\ ~ \E d \in Range(input["c1"]) : Carries(j, d))
                   => ~ \E k \in Range(zone) : StoreMatch(k, j)

\* how many requests of the given method caller c's operation has issued
Issued(c, method) ==
    Cardinality({i \in 1..Len(calls[c]) : calls[c][i].method = method})

\* the one request GetRecords, AppendRecords and DeleteRecords issue
MethodOf(name) ==
    CASE name = "GetRecords" -> "GET"
      [] name = "AppendRecords" -> "POST"
      [] name = "DeleteRecords" -> "DELETE"

(***************************************************************************)
(* C16.  No request is sent again: GetRecords, AppendRecords and           *)
(* DeleteRecords issue exactly one request each, and one SetRecords issues *)
(* exactly one GET, at most one POST and at most one DELETE, however the   *)
(* requests end.                                                           *)
(***************************************************************************)
C16_NoRetry ==
    \A c \in Callers :
        /\ op[c] \in {"GetRecords", "AppendRecords", "DeleteRecords"} =>
               /\ Len(calls[c]) = 1
               /\ calls[c][1].method = MethodOf(op[c])
        /\ InSet(c) =>
               /\ Issued(c, "GET") = 1
               /\ Issued(c, "POST") <= 1
               /\ Issued(c, "DELETE") <= 1

\* a SetRecords whose POST failed: the process has ended with one GET and
\* one POST issued
C16_Witness ==
    \E c \in Callers :
        /\ InSet(c)
        /\ CallFailed(c, 2)
        /\ input[c] # <<>>
        /\ host = "exited"

\* the objects of zone z whose name is the Name of no record of records
OtherNames(z, records) ==
    SelectSeq(z, LAMBDA j : \A d \in Range(records) : j.name # d.Name)

(***************************************************************************)
(* C17.  Frame of SetRecords: with no other caller, the objects of the     *)
(* zone whose name is the Name of no desired record are left as they were  *)
(* and are never part of the Delete request, whether Delete succeeds or    *)
(* fails.                                                                  *)
(***************************************************************************)
C17_OtherNamesUntouched ==
    \A c \in Callers :
        (InSet(c) /\ ncalls = 1) =>
            /\ OtherNames(zone, input[c]) = OtherNames(zone0, input[c])
            /\ \A i \in 1..Len(calls[c]) :
                   calls[c][i].method = "DELETE" =>
                       \A b \in Range(calls[c][i].body) :
                           \E d \in Range(input[c]) : b.name = d.Name

\* a SetRecords that sent a non-empty Delete on a zone that also held an
\* object under another name
C17_Witness ==
    \E c \in Callers :
        /\ InSet(c)
        /\ ncalls = 1
        /\ Len(calls[c]) = 3
        /\ calls[c][3].body # <<>>
        /\ OtherNames(zone0, input[c]) # <<>>
        /\ zone # zone0

\* the ttl of a JSON object, an absent key read as 0
TtlOf(j) == IF "ttl" \in DOMAIN j THEN j.ttl ELSE 0

\* JSON objects b and j name the same DNS entry: name, type and value
SameObject(b, j) ==
    /\ b.name = j.name
    /\ b.type = j.type
    /\ StoreValue(b) = StoreValue(j)

\* caller c's SetRecords, the first operation of the behaviour, has sent its
\* Delete: the snapshot is the List of the zone as it was at the start
SentDelete(c) == InSet(c) /\ ncalls = 1 /\ Len(calls[c]) = 3

\* the positions of the Delete body that were built from the i-th object
\* the List returned
SentFor(c, i) ==
    {k \in 1..Len(toDelete[c]) : toDelete[c][k] = existingRecords[c][i]}

\* the positions of the snapshot that share a Name with a desired record
Colliding(c) ==
    {i \in 1..Len(existingRecords[c]) :
        \E d \in Range(input[c]) : d.Name = existingRecords[c][i].Name}

C19_EmptyDeleteHarmless ==
    \A c \in Callers :
        InSet(c) =>
            /\ CallOk(c, 2) => (pc[c] = "delete" \/ Len(calls[c]) = 3)
            /\ (Len(calls[c]) = 3 /\ toDelete[c] = <<>>) =>
                   /\ calls[c][3].method = "DELETE"
                   /\ calls[c][3].body = <<>>
                   /\ ret[c] = Returned(input[c])

=============================================================================
